---------------------------- MODULE Spec2Model ----------------------------
(***************************************************************************)
(* Model of productivity_bot.py: the spreadsheet-backed store              *)
(* (SimpleMultiUserDB), the text parser (parse_activity) and the /setgoal  *)
(* command handler.                                                        *)
(*                                                                         *)
(* A Python str is a sequence of one-character strings.  A worksheet is    *)
(* the sequence of its data rows (the header row is row 1 of the sheet, so *)
(* data row k is sheet row k + 1); get_all_records returns these rows and  *)
(* append_row adds one at the end.                                         *)
(***************************************************************************)
EXTENDS Integers, Sequences, FiniteSets, TLC

VARIABLES
    today,        \* the calendar day datetime.now() falls on (a day number)
    activities,   \* data rows of the 'Activities' sheet
    goals,        \* data rows of the 'Goals' sheet
    buttons,      \* data rows of the 'Quick Buttons' sheet
    ret,          \* what the last operation was and what it returned
    args,         \* context.args of the last /setgoal request
    text,         \* the text given to parse_activity
    pc,           \* interleaved set_goal calls: each caller's position
    snap,         \* interleaved set_goal calls: each caller's all_records
    idx,          \* interleaved set_goal calls: each caller's loop index
    tgt,          \* interleaved set_goal calls: each caller's target_minutes
    calls         \* history: the tuples add_quick_button has been called with

vars == <<today, activities, goals, buttons, ret, args, text, pc, snap, idx, tgt, calls>>

-----------------------------------------------------------------------------
(* Bounds of the model *)

MaxDay == 7        \* days the clock can advance past FirstDay
MaxLog == 3        \* rows in the Activities sheet
MaxStreakDay == 3  \* days the clock can advance when streaks are read
MaxStreakLog == 3  \* rows in the Activities sheet when streaks are read
MaxGoals == 2      \* rows in the Goals sheet
MaxButtons == 3    \* rows in the Quick Buttons sheet
MaxRaceGoals == 3  \* rows in the Goals sheet when set_goal calls interleave
MaxProgressLog == 2    \* rows in the Activities sheet when goal progress is read
MaxProgressGoals == 2  \* rows in the Goals sheet when goal progress is read
MaxStoreDay == 1    \* days the clock can advance when all operations run
MaxStoreLog == 2    \* rows in the Activities sheet when all operations run
MaxStoreGoals == 1  \* rows in the Goals sheet when all operations run
MaxReportLog == 3    \* rows in the Activities sheet when goals are reported
MaxReportGoals == 2  \* rows in the Goals sheet when goals are reported

-----------------------------------------------------------------------------
(* Strings *)

\* Optional values: None, or Some(x)
None == <<>>
Some(x) == <<x>>

Max(S) == CHOOSE x \in S : \A y \in S : y <= x

Digits == <<"0", "1", "2", "3", "4", "5", "6", "7", "8", "9">>

IsDigit(c) == \E k \in DOMAIN Digits : Digits[k] = c

DigitVal(c) == (CHOOSE k \in DOMAIN Digits : Digits[k] = c) - 1

\* the characters of the model, in code point order
Alphabet ==
    <<" ", "+", "-">> \o Digits \o <<"D", "G", "H", "M", "W", "_">> \o
    <<"a", "b", "d", "e", "g", "h", "i", "k", "l", "m", "n", "o", "r", "s", "t", "u", "w", "x", "y">>

\* ord(c), up to an order-preserving renumbering
Ord(c) == CHOOSE k \in DOMAIN Alphabet : Alphabet[k] = c

Upper == <<"D", "G", "H", "M", "W">>
Lower == <<"d", "g", "h", "m", "w">>

\* str.lower()
lower(s) ==
    [k \in 1..Len(s) |->
        IF \E j \in DOMAIN Upper : Upper[j] = s[k]
        THEN Lower[CHOOSE j \in DOMAIN Upper : Upper[j] = s[k]]
        ELSE s[k]]

\* Python's str < str: the first differing character decides, a proper
\* prefix is smaller
RECURSIVE StrLess(_, _)
StrLess(a, b) ==
    IF b = <<>> THEN FALSE
    ELSE IF a = <<>> THEN TRUE
    ELSE IF Head(a) # Head(b) THEN Ord(Head(a)) < Ord(Head(b))
    ELSE StrLess(Tail(a), Tail(b))

StrGeq(a, b) == ~StrLess(a, b)

\* int() of a string of decimal digits
RECURSIVE DigitsToInt(_)
DigitsToInt(s) ==
    IF s = <<>> THEN 0
    ELSE 10 * DigitsToInt(SubSeq(s, 1, Len(s) - 1)) + DigitVal(s[Len(s)])

\* int(s) of a string without surrounding whitespace: an optional sign, then
\* digits, single underscores allowed between digits; anything else raises
\* ValueError (ok = FALSE)
int(s) ==
    LET signed == s # <<>> /\ s[1] \in {"+", "-"}
        body == IF signed THEN Tail(s) ELSE s
        wellFormed ==
            /\ body # <<>>
            /\ \A k \in 1..Len(body) : IsDigit(body[k]) \/ body[k] = "_"
            /\ IsDigit(body[1]) /\ IsDigit(body[Len(body)])
            /\ \A k \in 1..(Len(body) - 1) : ~(body[k] = "_" /\ body[k + 1] = "_")
        digits == SelectSeq(body, IsDigit)
    IN  IF ~wellFormed THEN [ok |-> FALSE, val |-> 0]
        ELSE [ok |-> TRUE,
              val |-> IF signed /\ s[1] = "-" THEN 0 - DigitsToInt(digits)
                      ELSE DigitsToInt(digits)]

-----------------------------------------------------------------------------
(* Dates: datetime.date, strftime('%Y-%m-%d'), strptime, timedelta *)

IsLeap(y) == (y % 4 = 0) /\ ((y % 100 # 0) \/ (y % 400 = 0))

DaysInMonth(y, m) ==
    IF m = 2 THEN (IF IsLeap(y) THEN 29 ELSE 28)
    ELSE IF m \in {4, 6, 9, 11} THEN 30 ELSE 31

NextDate(d) ==
    IF d[3] < DaysInMonth(d[1], d[2]) THEN <<d[1], d[2], d[3] + 1>>
    ELSE IF d[2] < 12 THEN <<d[1], d[2] + 1, 1>>
    ELSE <<d[1] + 1, 1, 1>>

\* timedelta(days=7)
WeekDelta == 7

\* day number 0 is 2023-12-23; the clock starts on FirstDay, 2023-12-30
Epoch == <<2023, 12, 23>>
FirstDay == WeekDelta
LastDay == FirstDay + (IF MaxDay > MaxStreakDay THEN MaxDay ELSE MaxStreakDay)

RECURSIVE DateFrom(_)
DateFrom(n) == IF n = 0 THEN Epoch ELSE NextDate(DateFrom(n - 1))

DateTable == [n \in 0..LastDay |-> DateFrom(n)]

\* date - date, in days
DayNumber(d) == CHOOSE n \in 0..LastDay : DateTable[n] = d

TwoDigits(n) == <<Digits[(n \div 10) + 1], Digits[(n % 10) + 1]>>

FourDigits(n) == TwoDigits(n \div 100) \o TwoDigits(n % 100)

strftime(d) == FourDigits(d[1]) \o <<"-">> \o TwoDigits(d[2]) \o <<"-">> \o TwoDigits(d[3])

strptime(s) ==
    <<DigitsToInt(SubSeq(s, 1, 4)), DigitsToInt(SubSeq(s, 6, 7)), DigitsToInt(SubSeq(s, 9, 10))>>

StrTable == [n \in 0..LastDay |-> strftime(DateTable[n])]

\* (datetime.now() - timedelta(days=k)).date().strftime('%Y-%m-%d')
DaysAgoStr(k) == StrTable[today - k]

-----------------------------------------------------------------------------
(* The Activities sheet.  A row is [name, duration, date]: the columns      *)
(* 'Activity Name', 'Duration (min)' and 'Date'.  'Timestamp' and 'Notes'   *)
(* are written by log_activity, copied into its result by                   *)
(* get_today_activities and tested by no operation.                         *)

Gym == <<"g", "y", "m">>
Run == <<"r", "u", "n">>
Acts == {Gym, Run}
Durations == {20, 40}

ActivityRow(name, duration) ==
    [name |-> name, duration |-> duration, date |-> DaysAgoStr(0)]

\* log_activity with a seeded fault: the new row takes the place of the last
\* row of the sheet
log_activity_replace(rows, name, duration, fault) ==
    IF fault = 1 THEN [rows |-> rows, ok |-> FALSE]
    ELSE [rows |-> Append(SubSeq(rows, 1, Len(rows) - 1), ActivityRow(name, duration)),
          ok |-> TRUE]

\* log_activity.  fault = 0: append_row succeeds; fault = 1: it raises and
\* the except clause returns False
log_activity(rows, name, duration, fault) ==
    IF fault = 1 THEN [rows |-> rows, ok |-> FALSE]
    ELSE [rows |-> Append(rows, ActivityRow(name, duration)), ok |-> TRUE]

\* sorted(S) of a set of strings, ascending
RECURSIVE Sorted(_)
Sorted(S) ==
    IF S = {} THEN <<>>
    ELSE LET m == CHOOSE x \in S : \A y \in S : x = y \/ StrLess(x, y)
         IN  <<m>> \o Sorted(S \ {m})

Reverse(s) == [k \in 1..Len(s) |-> s[Len(s) + 1 - k]]

\* the loop of get_week_summary: dicts activity_totals and activity_counts
\* (functions on their keys) after the first n records
RECURSIVE WeekLoop(_, _, _)
WeekLoop(rows, week_ago, n) ==
    IF n = 0 THEN [totals |-> <<>>, counts |-> <<>>]
    ELSE LET d == WeekLoop(rows, week_ago, n - 1)
             record == rows[n]
         IN  IF StrGeq(record.date, week_ago)
             THEN LET name == record.name
                      t == IF name \in DOMAIN d.totals THEN d.totals[name] ELSE 0
                      c == IF name \in DOMAIN d.counts THEN d.counts[name] ELSE 0
                  IN  [totals |-> [k \in DOMAIN d.totals \cup {name} |->
                                     IF k = name THEN t + record.duration ELSE d.totals[k]],
                       counts |-> [k \in DOMAIN d.counts \cup {name} |->
                                     IF k = name THEN c + 1 ELSE d.counts[k]]]
             ELSE d

get_week_summary(rows) ==
    LET week_ago == DaysAgoStr(WeekDelta)
        d == WeekLoop(rows, week_ago, Len(rows))
        names == Sorted(DOMAIN d.totals)
    IN  [k \in 1..Len(names) |-> <<names[k], d.totals[names[k]], d.counts[names[k]]>>]

\* get_today_activities: the loop over all_records keeps the records whose
\* 'Date' is today's and appends each to results, so in sheet order; of the
\* tuple appended, the name and the duration
get_today_activities(rows) ==
    LET today_str == DaysAgoStr(0)
        kept == SelectSeq(rows, LAMBDA record : record.date = today_str)
    IN  [k \in 1..Len(kept) |-> <<kept[k].name, kept[k].duration>>]

\* the loop of get_streak from index i (1-based here) on
RECURSIVE StreakLoop(_, _, _, _)
StreakLoop(sorted_dates, i, current_date, streak) ==
    IF i > Len(sorted_dates) THEN streak
    ELSE LET date == strptime(sorted_dates[i])
         IN  IF DayNumber(current_date) - DayNumber(date) = 1
             THEN StreakLoop(sorted_dates, i + 1, date, streak + 1)
             ELSE streak

\* get_streak with a seeded fault: the cut-off is today, not yesterday
get_streak_today_only(rows, activity_name) ==
    LET dates == {rows[k].date : k \in {j \in 1..Len(rows) : rows[j].name = activity_name}}
        sorted_dates == Reverse(Sorted(dates))
    IN  IF dates = {} THEN 0
        ELSE IF StrLess(sorted_dates[1], DaysAgoStr(0)) THEN 0
        ELSE StreakLoop(sorted_dates, 2, strptime(sorted_dates[1]), 1)

get_streak(rows, activity_name) ==
    LET dates == {rows[k].date : k \in {j \in 1..Len(rows) : rows[j].name = activity_name}}
        sorted_dates == Reverse(Sorted(dates))
    IN  IF dates = {} THEN 0
        ELSE IF StrLess(sorted_dates[1], DaysAgoStr(1)) THEN 0
        ELSE StreakLoop(sorted_dates, 2, strptime(sorted_dates[1]), 1)

-----------------------------------------------------------------------------
(* The Goals sheet.  A row is [name, target, period, active]: the columns   *)
(* 'Activity Name', 'Target (min)', 'Period' and 'Active'.                  *)

GoalRow(name, target, period, active) ==
    [name |-> name, target |-> target, period |-> period, active |-> active]

\* the records the loop of set_goal calls update_cell for, in loop order
Matching(all_records, activity_name, period) ==
    LET S == {k \in 1..Len(all_records) :
                 all_records[k].name = activity_name /\ all_records[k].period = period}
        RECURSIVE InOrder(_)
        InOrder(T) ==
            IF T = {} THEN <<>>
            ELSE LET k == CHOOSE x \in T : \A y \in T : x <= y
                 IN  <<k>> \o InOrder(T \ {k})
    IN  InOrder(S)

\* Deactivate with a seeded fault: no row is deactivated
Deactivate_none(rows, m, n) == rows

\* update_cell(i, 4, 'FALSE') on the rows named by the first n entries of m
Deactivate(rows, m, n) ==
    [k \in 1..Len(rows) |->
        IF \E j \in 1..n : m[j] = k THEN [rows[k] EXCEPT !.active = "FALSE"] ELSE rows[k]]

\* the requests set_goal sends to the sheet: get_all_records, one
\* update_cell per matching record, append_row
SetGoalRequests(rows, activity_name, period) ==
    Len(Matching(rows, activity_name, period)) + 2

\* SimpleMultiUserDB.set_goal.  fault = 0: every request succeeds;
\* fault = k > 0: the k-th request raises and the except clause returns False
set_goal_db(rows, activity_name, target_minutes, period, fault) ==
    LET m == Matching(rows, activity_name, period)
    IN  IF fault = 0
        THEN [rows |-> Append(Deactivate(rows, m, Len(m)),
                              GoalRow(activity_name, target_minutes, period, "TRUE")),
              ok |-> TRUE]
        ELSE IF fault = 1
        THEN [rows |-> rows, ok |-> FALSE]
        ELSE IF fault <= Len(m) + 1
        THEN [rows |-> Deactivate(rows, m, fault - 2), ok |-> FALSE]
        ELSE [rows |-> Deactivate(rows, m, Len(m)), ok |-> FALSE]

\* the loop body of get_active_goals: current for one goal
GoalProgress(goal, all_activities) ==
    LET start_date == DaysAgoStr(IF goal.period = "week" THEN WeekDelta ELSE 0)
        RECURSIVE Sum(_)
        Sum(n) ==
            IF n = 0 THEN 0
            ELSE Sum(n - 1) +
                 (IF all_activities[n].name = goal.name
                     /\ StrGeq(all_activities[n].date, start_date)
                  THEN all_activities[n].duration ELSE 0)
    IN  Sum(Len(all_activities))

\* get_active_goals: (activity_name, target_minutes, current, period) for
\* every goal whose Active cell is 'TRUE', in sheet order
get_active_goals(all_goals, all_activities) ==
    LET act == SelectSeq(all_goals, LAMBDA g : g.active = "TRUE")
    IN  [k \in 1..Len(act) |->
            <<act[k].name, act[k].target, GoalProgress(act[k], all_activities), act[k].period>>]

-----------------------------------------------------------------------------
(* The /setgoal command handler (set_goal).  The user has a sheet           *)
(* connected, so get_user_db returns the store.                             *)

DayWords == {<<"d", "a", "i", "l", "y">>, <<"d", "a", "y">>, <<"d">>}
WeekWords == {<<"w", "e", "e", "k", "l", "y">>, <<"w", "e", "e", "k">>, <<"w">>}

\* HandlerPeriod with a seeded fault: an unknown period falls back to the default
HandlerPeriod_default(a) ==
    IF Len(a) >= 3 /\ lower(a[3]) \in DayWords THEN "day" ELSE "week"

\* the period the handler derives from context.args, or "invalid"
HandlerPeriod(a) ==
    IF Len(a) >= 3
    THEN LET period_arg == lower(a[3])
         IN  IF period_arg \in DayWords THEN "day"
             ELSE IF period_arg \in WeekWords THEN "week"
             ELSE "invalid"
    ELSE "week"

\* what the handler asks the store to do: a usage reply without a call, or
\* db.set_goal(activity, target, period)
HandlerCall(a) ==
    IF Len(a) < 2 THEN [reply |-> "usage"]
    ELSE IF ~int(a[2]).ok THEN [reply |-> "invalid_number"]
    ELSE IF HandlerPeriod(a) = "invalid" THEN [reply |-> "invalid_period"]
    ELSE [reply |-> "call", activity |-> lower(a[1]), target |-> int(a[2]).val,
          period |-> HandlerPeriod(a)]

\* context.args of /setgoal requests
ActivityToks == {<<"G", "y", "m">>, Run}
MinuteToks == {<<"3", "0">>, <<"0">>, <<"x">>}
PeriodToks == {<<"d", "a", "i", "l", "y">>, <<"s", "o", "o", "n">>}

ArgLists ==
    {<<>>} \cup {<<a>> : a \in ActivityToks}
           \cup {<<a, m>> : a \in ActivityToks, m \in MinuteToks}
           \cup {<<a, m, p>> : a \in ActivityToks, m \in MinuteToks, p \in PeriodToks}

ProgressArgLists ==
    {<<Gym, <<"3", "0">> >>, <<Gym, <<"3", "0">>, <<"d", "a", "i", "l", "y">> >>}

\* /setgoal requests sent before goals are reported: weekly targets 150, 0
\* and -30 and a daily target 30
ReportArgLists ==
    {<<Gym, <<"1", "5", "0">> >>, <<Gym, <<"0">> >>, <<Gym, <<"-", "3", "0">> >>,
     <<Gym, <<"3", "0">>, <<"d", "a", "i", "l", "y">> >>}

\* durations logged before goals are reported
ReportDurations == {30, 60}

\* the one /setgoal request sent when all operations run: gym 30
StoreArgs == <<Gym, <<"3", "0">> >>

\* HandlerCall, evaluated once for each argument list
CallTable == [a \in ArgLists \cup ProgressArgLists \cup ReportArgLists |-> HandlerCall(a)]

\* the handler as a whole: the Goals sheet afterwards and the reply sent
set_goal_handler(rows, a, fault) ==
    LET c == CallTable[a]
    IN  IF c.reply # "call" THEN [rows |-> rows, reply |-> c.reply]
        ELSE LET r == set_goal_db(rows, c.activity, c.target, c.period, fault)
             IN  [rows |-> r.rows, reply |-> IF r.ok THEN "goal_set" ELSE "failed"]

-----------------------------------------------------------------------------
(* The /goals command handler (goals_status).  The user has a sheet         *)
(* connected.  A percentage is the fraction num / den with den > 0.  Of the *)
(* text written for a goal, the bar, current and target and the period word *)
(* are modelled; the heading with the name and the rounded percentage are   *)
(* not.                                                                     *)

\* the two characters of a bar: the full block and the light shade
Full == "#"
Shade == "."

\* str * n: n copies, the empty string when n <= 0
Times(c, n) == IF n > 0 THEN [k \in 1..n |-> c] ELSE <<>>

\* pct with a seeded fault: the division is the integer division
pct_whole(current, target) ==
    IF target > 0 THEN [num |-> (current \div target) * 100, den |-> 1]
    ELSE [num |-> 0, den |-> 1]

\* pct = (current / target * 100) if target > 0 else 0
pct(current, target) ==
    IF target > 0 THEN [num |-> current * 100, den |-> target]
    ELSE [num |-> 0, den |-> 1]

\* int(pct / 10): the quotient, rounded towards zero
int_tenth(p) ==
    IF p.num >= 0 THEN p.num \div (p.den * 10) ELSE 0 - ((0 - p.num) \div (p.den * 10))

\* bar = full * int(pct / 10) + shade * (10 - int(pct / 10))
bar(p) == Times(Full, int_tenth(p)) \o Times(Shade, 10 - int_tenth(p))

\* the reply for the list get_active_goals returned: the "No goals set!"
\* text for an empty list, else one entry for each goal in list order
goals_status(active) ==
    IF active = <<>> THEN [reply |-> "no_goals", val |-> <<>>]
    ELSE [reply |-> "goals",
          val |-> [k \in 1..Len(active) |->
                     LET target == active[k][2]
                         current == active[k][3]
                         period == active[k][4]
                     IN  [target |-> target, current |-> current,
                          period_text |-> IF period = "day" THEN "day" ELSE "week",
                          pct |-> pct(current, target),
                          bar |-> bar(pct(current, target))]]]

-----------------------------------------------------------------------------
(* The Quick Buttons sheet.  A row is [name, duration].                     *)

\* add_quick_button with a seeded fault: a button counts as present when a
\* row has its name
add_quick_button_by_name(rows, activity_name, duration_minutes, fault) ==
    IF fault = 1 THEN [rows |-> rows, ok |-> FALSE, raised |-> TRUE]
    ELSE IF \E k \in 1..Len(rows) : rows[k].name = activity_name
    THEN [rows |-> rows, ok |-> FALSE, raised |-> FALSE]
    ELSE IF fault = 2 THEN [rows |-> rows, ok |-> FALSE, raised |-> TRUE]
    ELSE [rows |-> Append(rows, [name |-> activity_name, duration |-> duration_minutes]),
          ok |-> TRUE, raised |-> FALSE]

\* add_quick_button.  fault = 0: every request succeeds; fault = 1:
\* get_all_records raises; fault = 2: append_row raises
\* (raised: the except clause ran and logged the error)
add_quick_button(rows, activity_name, duration_minutes, fault) ==
    IF fault = 1 THEN [rows |-> rows, ok |-> FALSE, raised |-> TRUE]
    ELSE IF \E k \in 1..Len(rows) :
                rows[k].name = activity_name /\ rows[k].duration = duration_minutes
    THEN [rows |-> rows, ok |-> FALSE, raised |-> FALSE]
    ELSE IF fault = 2 THEN [rows |-> rows, ok |-> FALSE, raised |-> TRUE]
    ELSE [rows |-> Append(rows, [name |-> activity_name, duration |-> duration_minutes]),
          ok |-> TRUE, raised |-> FALSE]

\* get_quick_buttons: sorted() of the (name, duration) tuples of the rows
get_quick_buttons(rows) ==
    LET RECURSIVE Insert(_, _)
        \* the stable position of tuple t in the sorted list l
        Insert(l, t) ==
            IF l = <<>> THEN <<t>>
            ELSE IF StrLess(t[1], l[1][1]) \/ (t[1] = l[1][1] /\ t[2] < l[1][2])
                 THEN <<t>> \o l
                 ELSE <<l[1]>> \o Insert(Tail(l), t)
        RECURSIVE Build(_)
        Build(n) ==
            IF n = 0 THEN <<>>
            ELSE Insert(Build(n - 1), <<rows[n].name, rows[n].duration>>)
    IN  Build(Len(rows))

-----------------------------------------------------------------------------
(* parse_activity.  The pattern is, in order: group 1, one word (\w+) and  *)
(* optionally whitespace and a second word; whitespace (\s+); group 2, the  *)
(* digits (\d+); optional whitespace; group 3, one of m, min, minutes?, h,  *)
(* hours?; optional whitespace; group 4, the rest of the line; the end of   *)
(* the string.  re.match with re.IGNORECASE runs it                         *)
(* by backtracking: a greedy repetition takes the longest run with which    *)
(* the rest of the pattern still matches, an alternation the first          *)
(* alternative with which the rest still matches.  Each XAt(s, i) below is  *)
(* where pattern element X, started at position i of s, ends in the match   *)
(* the engine finds (0: the pattern cannot match from there).               *)

IsSpace(c) == c = " "
IsWord(c) == c \notin {" ", "+", "-"}      \* \w: letters, digits and _
IsDot(c) == c # "\n"                        \* . : anything but a newline

\* the character classes \s, \w and \d
InClass(c, class) ==
    IF class = "s" THEN IsSpace(c)
    ELSE IF class = "w" THEN IsWord(c)
    ELSE IsDigit(c)

\* the positions a repetition of a character class started at i can end at
Ends(s, i, class) == {e \in i..(Len(s) + 1) : \A k \in i..(e - 1) : InClass(s[k], class)}

MaxOrZero(S) == IF S = {} THEN 0 ELSE Max(S)

\* str.strip()
strip(s) ==
    LET keep == {k \in 1..Len(s) : ~IsSpace(s[k])}
    IN  IF keep = {} THEN <<>>
        ELSE SubSeq(s, CHOOSE k \in keep : \A j \in keep : k <= j, Max(keep))

\* group 3: m|min|minutes?|h|hours? in the order the engine tries it
UnitAlts ==
    << <<"m">>, <<"m", "i", "n">>,
       <<"m", "i", "n", "u", "t", "e", "s">>, <<"m", "i", "n", "u", "t", "e">>,
       <<"h">>, <<"h", "o", "u", "r", "s">>, <<"h", "o", "u", "r">> >>

\* the \s* after the unit, followed by group 4 and the end of the string
TailAt(s, i) ==
    MaxOrZero({e \in Ends(s, i, "s") : \A k \in e..Len(s) : IsDot(s[k])})

\* the alternative of the unit group taken at i (0: none)
UnitAt(s, i) ==
    LET fits == {j \in DOMAIN UnitAlts :
                    /\ i + Len(UnitAlts[j]) - 1 <= Len(s)
                    /\ lower(SubSeq(s, i, i + Len(UnitAlts[j]) - 1)) = UnitAlts[j]
                    /\ TailAt(s, i + Len(UnitAlts[j])) # 0}
    IN  IF fits = {} THEN 0 ELSE CHOOSE j \in fits : \A k \in fits : j <= k

\* \s* before the unit
GapAt(s, i) == MaxOrZero({e \in Ends(s, i, "s") : UnitAt(s, e) # 0})

\* group 2: \d+
NumberAt(s, i) == MaxOrZero({e \in Ends(s, i, "d") : e > i /\ GapAt(s, e) # 0})

\* \s+ before the number
SepAt(s, i) == MaxOrZero({e \in Ends(s, i, "s") : e > i /\ NumberAt(s, e) # 0})

\* the second word of group 1, started after its whitespace
SecondWordAt(s, i) == MaxOrZero({e \in Ends(s, i, "w") : e > i /\ SepAt(s, e) # 0})

\* the optional part of group 1: taken if it can be, else skipped
OptionalAt(s, i) ==
    LET sp == MaxOrZero({e \in Ends(s, i, "s") : e > i /\ SecondWordAt(s, e) # 0})
    IN  IF sp # 0 THEN SecondWordAt(s, sp)
        ELSE IF SepAt(s, i) # 0 THEN i
        ELSE 0

\* the first \w+
FirstWordAt(s, i) == MaxOrZero({e \in Ends(s, i, "w") : e > i /\ OptionalAt(s, e) # 0})

parse_activity(t) ==
    LET s == strip(t)
        w == FirstWordAt(s, 1)
    IN  IF w = 0 THEN None
        ELSE LET g1 == OptionalAt(s, w)          \* end of group 1
                 n0 == SepAt(s, g1)              \* start of group 2
                 n1 == NumberAt(s, n0)           \* end of group 2
                 u0 == GapAt(s, n1)              \* start of group 3
                 u1 == u0 + Len(UnitAlts[UnitAt(s, u0)])
                 g4 == SubSeq(s, TailAt(s, u1), Len(s))
                 activity_name == lower(SubSeq(s, 1, g1 - 1))
                 duration == DigitsToInt(SubSeq(s, n0, n1 - 1))
                 unit == lower(SubSeq(s, u0, u1 - 1))
                 notes == IF g4 # <<>> THEN Some(strip(g4)) ELSE None
             IN  Some(<<activity_name,
                        IF unit[1] = "h" THEN duration * 60 ELSE duration,
                        notes>>)

-----------------------------------------------------------------------------
(* Inputs *)

\* texts given to parse_activity: <activity> <n><unit> with and without
\* whitespace before the unit and notes after it, and texts of other shapes
NameWords == {Run, <<"G", "y", "m">>, <<"m", "y", " ", "r", "u", "n">>}
NumberWords == {<<"5">>, <<"4", "5">>}
Gaps == {<<>>, <<" ">>}
UnitWords ==
    {UnitAlts[j] : j \in DOMAIN UnitAlts} \cup {<<"H">>, <<"M", "i", "n">>}
NoteWords == {<<>>, <<" ", "o", "k">>}

Compose(w, n, g, u, note) == w \o <<" ">> \o n \o g \o u \o note

OtherTexts ==
    {<<>>, Run, Run \o <<" ", "5">>, <<"5", "m">>, Run \o <<" ", "5", "x">>,
     <<" ">> \o Run \o <<" ", "5", "m", " ">>}

Texts ==
    {Compose(w, n, g, u, note) :
        w \in NameWords, n \in NumberWords, g \in Gaps, u \in UnitWords, note \in NoteWords}
    \cup OtherTexts

\* texts sent as messages: two that parse and one that does not
MessageTexts ==
    {Run \o <<" ", "5", "m">>, <<"G", "y", "m", " ", "1", "h", " ", "o", "k">>, Run}

\* parse_activity, evaluated once for each message text
ParseTable == [t \in MessageTexts |-> parse_activity(t)]

Procs == {1, 2}
Targets == {30, 45}
RaceKey == [name |-> Gym, period |-> "week"]

-----------------------------------------------------------------------------
(* State and operations *)

Idle == [p \in Procs |-> "idle"]

Rest ==
    /\ today = FirstDay
    /\ activities = <<>>
    /\ goals = <<>>
    /\ buttons = <<>>
    /\ ret = [op |-> "init"]
    /\ args = <<>>
    /\ pc = Idle
    /\ snap = [p \in Procs |-> <<>>]
    /\ idx = [p \in Procs |-> 0]
    /\ tgt = [p \in Procs |-> 0]
    /\ calls = {}

Init == Rest /\ text = <<>>

InitParse == Rest /\ text \in Texts

\* midnight passes
Tick(days) ==
    /\ today < FirstDay + days
    /\ today' = today + 1
    /\ ret' = [op |-> "tick"]
    /\ UNCHANGED <<activities, goals, buttons, args, text, pc, snap, idx, tgt, calls>>

\* log_activity(name, duration)
LogActivity(name, duration, fault, maxRows) ==
    LET r == log_activity(activities, name, duration, fault)
    IN  /\ Len(r.rows) <= maxRows
        /\ activities' = r.rows
        /\ ret' = [op |-> "log", ok |-> r.ok]
        /\ UNCHANGED <<today, goals, buttons, args, text, pc, snap, idx, tgt, calls>>

\* get_week_summary(); a fault of get_all_records gives []
WeekSummary(fault) ==
    /\ ret' = [op |-> "week",
               val |-> IF fault = 1 THEN <<>> ELSE get_week_summary(activities)]
    /\ UNCHANGED <<today, activities, goals, buttons, args, text, pc, snap, idx, tgt, calls>>

\* get_streak(name); when get_all_records raises (fault = 1) the except
\* clause returns 0
Streak(name, fault) ==
    /\ ret' = [op |-> "streak", name |-> name, raised |-> (fault = 1),
               val |-> IF fault = 1 THEN 0 ELSE get_streak(activities, name)]
    /\ UNCHANGED <<today, activities, goals, buttons, args, text, pc, snap, idx, tgt, calls>>

\* get_active_goals(); a fault of get_all_records gives []
ActiveGoals(fault) ==
    /\ ret' = [op |-> "goals",
               val |-> IF fault = 1 THEN <<>> ELSE get_active_goals(goals, activities)]
    /\ UNCHANGED <<today, activities, goals, buttons, args, text, pc, snap, idx, tgt, calls>>

\* the requests the handler's call of the store sends to the sheet
HandlerRequests(rows, a) ==
    LET c == CallTable[a]
    IN  IF c.reply = "call" THEN SetGoalRequests(rows, c.activity, c.period) ELSE 0

\* a /setgoal request with context.args = a
SetGoal(a, fault, maxRows) ==
    LET r == set_goal_handler(goals, a, fault)
    IN  /\ Len(r.rows) <= maxRows
        /\ args' = a
        /\ goals' = r.rows
        /\ ret' = [op |-> "setgoal", reply |-> r.reply]
        /\ UNCHANGED <<today, activities, buttons, text, pc, snap, idx, tgt, calls>>

\* add_quick_button(name, duration)
AddButton(name, duration, fault) ==
    LET r == add_quick_button(buttons, name, duration, fault)
    IN  /\ Len(r.rows) <= MaxButtons
        /\ buttons' = r.rows
        /\ calls' = calls \cup {<<name, duration>>}
        /\ ret' = [op |-> "addbutton", name |-> name, duration |-> duration,
                   ok |-> r.ok, raised |-> r.raised]
        /\ UNCHANGED <<today, activities, goals, args, text, pc, snap, idx, tgt>>

\* get_quick_buttons(); a fault of get_all_records gives []
ListButtons(fault) ==
    /\ ret' = [op |-> "buttons",
               val |-> IF fault = 1 THEN <<>> ELSE get_quick_buttons(buttons)]
    /\ UNCHANGED <<today, activities, goals, buttons, args, text, pc, snap, idx, tgt, calls>>

\* parse_activity(text)
Parse ==
    /\ ret.op = "init"
    /\ ret' = [op |-> "parse", val |-> parse_activity(text)]
    /\ UNCHANGED <<today, activities, goals, buttons, args, text, pc, snap, idx, tgt, calls>>

\* a /goals request; a fault in get_active_goals gives the empty list
GoalsStatus(fault) ==
    LET active == IF fault = 1 THEN <<>> ELSE get_active_goals(goals, activities)
        r == goals_status(active)
    IN  /\ ret' = [op |-> "report", reply |-> r.reply, val |-> r.val]
        /\ UNCHANGED <<today, activities, goals, buttons, args, text, pc, snap, idx, tgt, calls>>

\* get_today_activities(); a fault of get_all_records gives []
TodayActivities(fault) ==
    /\ ret' = [op |-> "today", raised |-> (fault = 1),
               val |-> IF fault = 1 THEN <<>> ELSE get_today_activities(activities)]
    /\ UNCHANGED <<today, activities, goals, buttons, args, text, pc, snap, idx, tgt, calls>>

\* handle_message once parse_activity has returned parsed, the user having
\* a sheet connected.  fault = 1: append_row raises; fault = 2: a request
\* of get_active_goals raises, which then returns [].  The result is the
\* Activities sheet afterwards and the reply: the help text, "Failed to
\* log!" or the confirmation with one line (current, target) for each
\* active goal of the activity.
handle_message(parsed, rows, all_goals, fault) ==
    IF parsed = None THEN [rows |-> rows, reply |-> "help", lines |-> <<>>]
    ELSE LET activity_name == parsed[1][1]
             duration == parsed[1][2]
             r == log_activity(rows, activity_name, duration, IF fault = 1 THEN 1 ELSE 0)
             active == IF fault = 2 THEN <<>> ELSE get_active_goals(all_goals, r.rows)
             mine == SelectSeq(active, LAMBDA g : g[1] = activity_name)
         IN  IF r.ok
             THEN [rows |-> r.rows, reply |-> "logged",
                   lines |-> [k \in 1..Len(mine) |-> <<mine[k][3], mine[k][2]>>]]
             ELSE [rows |-> r.rows, reply |-> "failed", lines |-> <<>>]

\* a message with update.message.text = t
HandleMessage(t, fault, maxRows) ==
    \E r \in {handle_message(ParseTable[t], activities, goals, fault)} :
        /\ Len(r.rows) <= maxRows
        /\ activities' = r.rows
        /\ ret' = [op |-> "message", text |-> t, reply |-> r.reply, lines |-> r.lines]
        /\ UNCHANGED <<today, goals, buttons, args, text, pc, snap, idx, tgt, calls>>

(* set_goal calls on one sheet whose requests interleave: two callers, each *)
(* at a position in SimpleMultiUserDB.set_goal                              *)

InFlight == {p \in Procs : pc[p] # "idle"}

\* all_records = self.goals_sheet.get_all_records()
RaceRead(p, target) ==
    /\ pc[p] = "idle"
    /\ Len(goals) + Cardinality(InFlight) < MaxRaceGoals
    /\ snap' = [snap EXCEPT ![p] = goals]
    /\ idx' = [idx EXCEPT ![p] = 1]
    /\ tgt' = [tgt EXCEPT ![p] = target]
    /\ pc' = [pc EXCEPT ![p] = "loop"]
    /\ ret' = [op |-> "race"]
    /\ UNCHANGED <<today, activities, goals, buttons, args, text, calls>>

\* one iteration of the for loop: update_cell(i, 4, 'FALSE') if the record matches
RaceLoop(p) ==
    /\ pc[p] = "loop"
    /\ idx[p] <= Len(snap[p])
    /\ goals' = IF snap[p][idx[p]].name = RaceKey.name /\ snap[p][idx[p]].period = RaceKey.period
                THEN [goals EXCEPT ![idx[p]].active = "FALSE"]
                ELSE goals
    /\ idx' = [idx EXCEPT ![p] = idx[p] + 1]
    /\ ret' = [op |-> "race"]
    /\ UNCHANGED <<today, activities, buttons, args, text, pc, snap, tgt, calls>>

\* append_row([activity_name, target_minutes, period, 'TRUE']); return True
RaceAppend(p) ==
    /\ pc[p] = "loop"
    /\ idx[p] > Len(snap[p])
    /\ goals' = Append(goals, GoalRow(RaceKey.name, tgt[p], RaceKey.period, "TRUE"))
    /\ pc' = [pc EXCEPT ![p] = "idle"]
    /\ ret' = [op |-> "race"]
    /\ UNCHANGED <<today, activities, buttons, args, text, snap, idx, tgt, calls>>

\* the caller's next request raises: the except clause returns False
RaceFault(p) ==
    /\ pc[p] = "loop"
    /\ pc' = [pc EXCEPT ![p] = "idle"]
    /\ ret' = [op |-> "race"]
    /\ UNCHANGED <<today, activities, goals, buttons, args, text, snap, idx, tgt, calls>>

-----------------------------------------------------------------------------
(* Specifications *)

\* /setgoal requests, handled one at a time
Next == \E a \in ArgLists : \E f \in 0..HandlerRequests(goals, a) : SetGoal(a, f, MaxGoals)

Spec == Init /\ [][Next]_vars

\* the activity log and the reports computed from it
NextLog ==
    \/ \E n \in Acts, d \in Durations, f \in {0, 1} : LogActivity(n, d, f, MaxLog)
    \/ Tick(MaxDay)
    \/ \E f \in {0, 1} : WeekSummary(f)

SpecLog == Init /\ [][NextLog]_vars

\* the activity log and the streaks computed from it
NextStreak ==
    \/ \E n \in Acts, d \in Durations, f \in {0, 1} : LogActivity(n, d, f, MaxStreakLog)
    \/ Tick(MaxStreakDay)
    \/ \E n \in Acts, f \in {0, 1} : Streak(n, f)

SpecStreak == Init /\ [][NextStreak]_vars

\* goals and the progress computed for them
NextProgress ==
    \/ \E n \in Acts, d \in Durations, f \in {0, 1} : LogActivity(n, d, f, MaxProgressLog)
    \/ Tick(MaxDay)
    \/ \E a \in ProgressArgLists : \E f \in 0..HandlerRequests(goals, a) :
           SetGoal(a, f, MaxProgressGoals)
    \/ \E f \in {0, 1} : ActiveGoals(f)

SpecProgress == Init /\ [][NextProgress]_vars

\* quick buttons
NextButtons ==
    \/ \E n \in Acts, d \in Durations, f \in {0, 1, 2} : AddButton(n, d, f)
    \/ \E f \in {0, 1} : ListButtons(f)

SpecButtons == Init /\ [][NextButtons]_vars

\* every operation of the store, messages being the way entries are logged
NextStore ==
    \/ \E t \in MessageTexts, f \in {0, 1, 2} : HandleMessage(t, f, MaxStoreLog)
    \/ Tick(MaxStoreDay)
    \/ \E f \in {0, 1} : TodayActivities(f)
    \/ \E f \in {0, 1} : WeekSummary(f)
    \/ \E f \in {0, 1} : Streak(Gym, f)
    \/ \E f \in 0..HandlerRequests(goals, StoreArgs) : SetGoal(StoreArgs, f, MaxStoreGoals)
    \/ \E f \in {0, 1} : ActiveGoals(f)
    \/ \E f \in {0, 1, 2} : AddButton(Gym, 20, f)
    \/ \E f \in {0, 1} : ListButtons(f)

SpecStore == Init /\ [][NextStore]_vars

\* goals, logged minutes and the /goals report
NextReport ==
    \/ \E d \in ReportDurations, f \in {0, 1} : LogActivity(Gym, d, f, MaxReportLog)
    \/ \E a \in ReportArgLists : SetGoal(a, 0, MaxReportGoals)
    \/ \E f \in {0, 1} : GoalsStatus(f)

SpecReport == Init /\ [][NextReport]_vars

\* the parser on each text
NextParse == Parse

SpecParse == InitParse /\ [][NextParse]_vars

\* set_goal calls for one key whose requests interleave
NextRace ==
    \E p \in Procs :
        \/ \E t \in Targets : RaceRead(p, t)
        \/ RaceLoop(p)
        \/ RaceAppend(p)
        \/ RaceFault(p)

SpecRace == Init /\ [][NextRace]_vars

-----------------------------------------------------------------------------
(* Properties *)

Range(f) == {f[k] : k \in DOMAIN f}

\* the keys (activity name, period) of the Goals sheet
GoalKeys(rows) == {<<rows[k].name, rows[k].period>> : k \in DOMAIN rows}

\* the rows of a key whose Active cell is 'TRUE'
ActiveOf(rows, key) ==
    {k \in DOMAIN rows :
        rows[k].name = key[1] /\ rows[k].period = key[2] /\ rows[k].active = "TRUE"}

\* the (name, target, period) of the active rows of a key
ActiveGoalsOf(rows, key) ==
    {<<rows[k].name, rows[k].target, rows[k].period>> : k \in ActiveOf(rows, key)}

AtMostOneActive(rows) == \A key \in GoalKeys(rows) : Cardinality(ActiveOf(rows, key)) <= 1

\* the key a /setgoal request with at least two arguments names
RequestKey(a) ==
    <<lower(a[1]), IF Len(a) >= 3 /\ lower(a[3]) \in DayWords THEN "day" ELSE "week">>

\* after a successful /setgoal, activeGoals has exactly one row for the key
\* set, with the target set
LatestIsActive ==
    (ret.op = "setgoal" /\ ret.reply = "goal_set") =>
        LET key == RequestKey(args)
            got == SelectSeq(get_active_goals(goals, activities),
                             LAMBDA g : g[1] = key[1] /\ g[4] = key[2])
        IN  /\ Len(got) = 1
            /\ got[1][2] = int(args[2]).val

\* a /setgoal for one key leaves the active goals of every other key alone
OtherKeysKept ==
    ret'.op = "setgoal" =>
        \A key \in GoalKeys(goals) \cup GoalKeys(goals') :
            (Len(args') < 2 \/ key # RequestKey(args'))
                => ActiveGoalsOf(goals', key) = ActiveGoalsOf(goals, key)

\* C1: for every (activity_name, period) at most one goal row is active, and
\* after a successful setGoal the one active row of its pair carries the
\* target just set, the active rows of the other pairs being left as they
\* were: so after any sequence of successful setGoal calls every pair that
\* was set has exactly one active row, with its latest target.
C1_GoalExclusivity ==
    /\ [](AtMostOneActive(goals) /\ LatestIsActive)
    /\ [][OtherKeysKept]_vars

\* C1 witness: a pair set twice, the second time successfully: its first row
\* is inactive and its second active
C1_Witness ==
    /\ ret.op = "setgoal" /\ ret.reply = "goal_set"
    /\ Len(goals) = 2
    /\ goals[1].name = goals[2].name /\ goals[1].period = goals[2].period
    /\ goals[1].target # goals[2].target
    /\ goals[1].active = "FALSE" /\ goals[2].active = "TRUE"

\* C2: once no set_goal call is in progress, the key the interleaved calls
\* set has at most one active goal row.
C2_RaceLeavesOneActive ==
    (pc = Idle) => Cardinality(ActiveOf(goals, <<RaceKey.name, RaceKey.period>>)) <= 1

\* the days the activity has a row for, as day numbers
LoggedDays(rows, name) ==
    {DayNumber(strptime(rows[k].date)) : k \in {j \in DOMAIN rows : rows[j].name = name}}

\* the length of the run of consecutive days of S that ends at D
RunLength(S, D) ==
    CHOOSE n \in 1..Cardinality(S) : (\A k \in 0..(n - 1) : D - k \in S) /\ (D - n) \notin S

ExpectedStreak(rows, name) ==
    LET S == LoggedDays(rows, name)
    IN  IF S = {} THEN 0
        ELSE IF Max(S) < today - 1 THEN 0
        ELSE RunLength(S, Max(S))

\* C3: for every log read and every activity, streak is 0 when the activity
\* has no entries or its most recent logged day is before yesterday, and
\* otherwise the length of the run of consecutive logged days that ends at
\* the most recent one.
C3_Streak ==
    /\ \A name \in Acts : get_streak(activities, name) = ExpectedStreak(activities, name)
    /\ (ret.op = "streak" /\ ~ret.raised) => ret.val = ExpectedStreak(activities, ret.name)

\* C3 witness: streak was asked for an activity with three entries, on
\* yesterday and the day before and none today, and answered 2
C3_Witness ==
    /\ ret.op = "streak" /\ ~ret.raised /\ ret.val = 2
    /\ LoggedDays(activities, ret.name) = {today - 2, today - 1}
    /\ Len(activities) = 3 /\ \A k \in DOMAIN activities : activities[k].name = ret.name

\* the rows of an activity whose date is one of the given days
RowsIn(rows, name, days) ==
    {k \in DOMAIN rows : rows[k].name = name /\ DayNumber(strptime(rows[k].date)) \in days}

RECURSIVE SumDurations(_, _)
SumDurations(rows, K) ==
    IF K = {} THEN 0
    ELSE LET k == CHOOSE x \in K : TRUE
         IN  rows[k].duration + SumDurations(rows, K \ {k})

\* the rows the summary of the given days has
SummaryOf(rows, days) ==
    {<<name, SumDurations(rows, RowsIn(rows, name, days)), Cardinality(RowsIn(rows, name, days))>> :
        name \in {n \in Acts : RowsIn(rows, n, days) # {}}}

\* C4: weekSummary has exactly one row per activity with an entry dated in
\* today - 6 days .. today, holding the sum of the durations and the number
\* of that activity's entries in that window; older entries count nowhere.
C4_WeekWindow ==
    LET got == get_week_summary(activities)
        want == SummaryOf(activities, (today - 6)..today)
    IN  Range(got) = want /\ Len(got) = Cardinality(want)

\* C5: the current_progress of every active goal is the sum of the durations
\* of the entries of its activity dated today (period day) or in
\* today - 6 days .. today (period week).
C5_GoalProgress ==
    \A g \in Range(get_active_goals(goals, activities)) :
        g[3] = SumDurations(activities,
                   RowsIn(activities, g[1],
                          IF g[4] = "day" THEN {today} ELSE (today - 6)..today))

\* C6: a text <activity> <n><unit>, with or without whitespace before the
\* unit, parses to the lowercased activity, n minutes (60 * n for an hour
\* unit) and the trimmed notes, None when there are none.
C6_ParseUnits ==
    ret.op = "parse" =>
        \A w \in NameWords, n \in NumberWords, g \in Gaps, u \in UnitWords, note \in NoteWords :
            text = Compose(w, n, g, u, note) =>
                ret.val = Some(<<lower(w),
                                 IF lower(u)[1] = "h" THEN 60 * DigitsToInt(n) ELSE DigitsToInt(n),
                                 IF note = <<>> THEN None ELSE Some(strip(note))>>)

\* the active goals, in sheet order
ActiveList(rows) == SelectSeq(rows, LAMBDA g : g.active = "TRUE")

\* C7: a /setgoal whose store call reports failure leaves the active goals
\* as they were before it.
C7_SetGoalAtomic ==
    [][(ret'.op = "setgoal" /\ ret'.reply = "failed") => ActiveList(goals') = ActiveList(goals)]_vars

\* C8: every goal row /setgoal writes has a target greater than 0.
C8_PositiveTarget == \A k \in DOMAIN goals : goals[k].target > 0

\* the request fails input validation
Rejected(a) ==
    \/ Len(a) < 2
    \/ ~int(a[2]).ok
    \/ Len(a) >= 3 /\ lower(a[3]) \notin (DayWords \cup WeekWords)

\* C9: a /setgoal request that fails input validation leaves the Goals sheet
\* unchanged.
C9_RejectedWritesNothing ==
    [][(ret'.op = "setgoal" /\ Rejected(args')) => goals' = goals]_vars

\* C9 witness: a request with an unknown period was answered while the sheet
\* holds an active goal
C9_Witness ==
    /\ ret.op = "setgoal" /\ ret.reply = "invalid_period"
    /\ Len(args) = 3 /\ int(args[2]).ok
    /\ \E k \in DOMAIN goals : goals[k].active = "TRUE" /\ goals[k].name = lower(args[1])

ButtonTuples(rows) == {<<rows[k].name, rows[k].duration>> : k \in DOMAIN rows}

OneRowPerTuple == \A i, j \in DOMAIN buttons : buttons[i] = buttons[j] => i = j

\* C10 as stated: at most one row per tuple; the first call for a tuple
\* returns true, every later call for it returns false and changes nothing.
C10_FirstCallTrue ==
    /\ []OneRowPerTuple
    /\ [][ret'.op = "addbutton" =>
             LET t == <<ret'.name, ret'.duration>>
             IN  /\ ret'.ok = (t \notin calls)
                 /\ t \in calls => buttons' = buttons]_vars

\* C10, amended: at most one row per tuple; a call returns true exactly when
\* the tuple is not in the store and no storage request raises, and then it
\* appends the one row of the tuple; every other call, so every call for a
\* tuple already in the store, returns false and leaves the store unchanged.
C10_AddButtonIdempotent ==
    /\ []OneRowPerTuple
    /\ [][ret'.op = "addbutton" =>
             LET t == <<ret'.name, ret'.duration>>
             IN  /\ ret'.ok = (t \notin ButtonTuples(buttons) /\ ~ret'.raised)
                 /\ buttons' = IF ret'.ok
                               THEN Append(buttons, [name |-> t[1], duration |-> t[2]])
                               ELSE buttons]_vars

\* C10 witness: a call for a tuple already in the store returned false, the
\* store holding that tuple once and another tuple of the same activity
C10_Witness ==
    /\ ret.op = "addbutton" /\ ~ret.ok /\ ~ret.raised
    /\ Cardinality({k \in DOMAIN buttons : buttons[k] = [name |-> ret.name, duration |-> ret.duration]}) = 1
    /\ \E k \in DOMAIN buttons : buttons[k].name = ret.name /\ buttons[k].duration # ret.duration

-----------------------------------------------------------------------------
(* The Activities sheet is append-only *)

\* the row a logged message adds: the parsed name and duration, dated today
LoggedRow(t) ==
    LET parsed == ParseTable[t]
    IN  [name |-> parsed[1][1], duration |-> parsed[1][2], date |-> DaysAgoStr(0)]

\* C11: a message that is logged appends exactly one entry, the one it
\* names, to the Activities sheet; every other step of every operation
\* (a message not logged, today, week summary, streak, set goal, active
\* goals, add button, list buttons, midnight) leaves the sheet as it was.
\* So the sheet is always the earlier sheet extended by the entries of the
\* successful log calls in call order.
C11_AppendOnly ==
    [][IF ret'.op = "message" /\ ret'.reply = "logged"
       THEN activities' = Append(activities, LoggedRow(ret'.text))
       ELSE activities' = activities]_vars

\* C11 witness: a message has just been logged as the second entry, on a
\* later day than the first, with a goal set and a button added in between
C11_Witness ==
    /\ ret.op = "message" /\ ret.reply = "logged"
    /\ Len(activities) = 2
    /\ activities[1].date # activities[2].date
    /\ goals # <<>>
    /\ buttons # <<>>

-----------------------------------------------------------------------------
(* The entries of today *)

\* positions in the sheet of the entries dated today; a later position is a
\* later log call, append_row adding each row below the rows there are
TodayPositions == {k \in DOMAIN activities : activities[k].date = DaysAgoStr(0)}

\* the position of the i-th newest entry of today
NthNewest(i) ==
    CHOOSE k \in TodayPositions : Cardinality({j \in TodayPositions : j > k}) = i - 1

\* C12: a today call that reads the sheet returns exactly the entries dated
\* today, the newest first: the i-th returned entry is the i-th newest.
C12_TodayNewestFirst ==
    (ret.op = "today" /\ ~ret.raised) =>
        /\ Len(ret.val) = Cardinality(TodayPositions)
        /\ \A i \in 1..Len(ret.val) :
               ret.val[i] = <<activities[NthNewest(i)].name, activities[NthNewest(i)].duration>>

-----------------------------------------------------------------------------
(* The progress bars of the /goals report *)

\* the entries of the last /goals report
Reported == IF ret.op = "report" THEN Range(ret.val) ELSE {}

\* the number of full segments of a bar
FilledIn(b) == Cardinality({k \in DOMAIN b : b[k] = Full})

\* p is current / target * 100, or 0 when target <= 0
IsPercentage(p, current, target) ==
    IF target > 0 THEN p.num * target = current * 100 * p.den ELSE p.num = 0

\* n is the floor of a tenth of the percentage p >= 0
IsFloorTenth(n, p) == n * 10 * p.den <= p.num /\ p.num < (n + 1) * 10 * p.den

\* the bar b is its full segments followed by its shade segments
FullFirst(b) ==
    \A k \in DOMAIN b : b[k] \in {Full, Shade} /\ (b[k] = Full <=> k <= FilledIn(b))

=============================================================================
